---- MODULE Spec2Model ----
(***************************************************************************)
(* A model of hust: the bridge response protocol of src/bridge.rs          *)
(* (register_user, light_change_result, modify_light, switch_light) and    *)
(* the SSDP discovery iterator of src/discovery.rs (receive_answer,        *)
(* BridgeFinder::new, BridgeFinder::next).                                 *)
(*                                                                         *)
(* The specifications of the module:                                       *)
(*   SpecApi   the response protocol, driven by every bounded response     *)
(*   Spec      one discovery session                                       *)
(*   SpecLive  one discovery session under fair scheduling                 *)
(*   SpecPair  two discovery sessions whose calls interleave               *)
(***************************************************************************)
EXTENDS Integers, Sequences, FiniteSets, TLC

VARIABLES
    \* ---- response protocol (bridge.rs) ----
    response,     \* the Vec<ApiResponseSection> the last call decoded
    apiCall,      \* which Bridge method ran last
    apiResult,    \* what it returned
    \* ---- discovery session (discovery.rs) ----
    finder,       \* the BridgeFinder: timeout, seen_urls
    now,          \* self.start.elapsed(), in clock ticks
    pc,           \* position of the consumer inside next()
    sockbuf,      \* datagrams queued on the UdpSocket
    readTimeout,  \* SO_RCVTIMEO as last set by set_read_timeout
    recvSince,    \* the tick at which the pending recv_from started
    ret,          \* what the last completed call of next() returned
    hist,         \* observations of the session so far
    \* ---- two discovery sessions side by side ----
    sessions,     \* the BridgeFinder instances, with their sockets
    clock         \* the monotonic clock both read

apiVars == <<response, apiCall, apiResult>>
finderVars == <<finder, now, pc, sockbuf, readTimeout, recvSince, ret, hist>>
pairVars == <<sessions, clock>>
vars == <<response, apiCall, apiResult,
          finder, now, pc, sockbuf, readTimeout, recvSince, ret, hist,
          sessions, clock>>

(***************************************************************************)
(* Bounds of the model.                                                    *)
(***************************************************************************)
MaxSections == 3
MaxTimeout == 2     \* the configured timeouts range over 0..MaxTimeout ticks
Slack == 2          \* ticks the clock runs on after the deadline
MaxBuf == 1         \* datagrams the socket queues
MaxCount == 2       \* the history counters saturate here

(***************************************************************************)
(* Option and Result.                                                      *)
(***************************************************************************)
None == [some |-> FALSE]
Some(v) == [some |-> TRUE, val |-> v]

Ok(v) == [tag |-> "Ok", val |-> v]
Err(e) == [tag |-> "Err", err |-> e]

(***************************************************************************)
(* serde_json::Value, restricted to strings and numbers.  A string is a    *)
(* sequence of characters.                                                 *)
(***************************************************************************)
JString(s) == [t |-> "String", s |-> s, n |-> 0]
JNumber(n) == [t |-> "Number", s |-> <<>>, n |-> n]

Digit(d) == <<"0", "1", "2", "3", "4", "5", "6", "7", "8", "9">>[d + 1]

RECURSIVE Decimal(_)
Decimal(n) == IF n < 10 THEN <<Digit(n)>>
              ELSE Append(Decimal(n \div 10), Digit(n % 10))

\* JSON string escaping of the two characters the model's alphabet needs
RECURSIVE Escape(_)
Escape(s) ==
    IF s = <<>> THEN <<>>
    ELSE LET c == Head(s) IN
         (IF c = "\"" THEN <<"\\", "\"">>
          ELSE IF c = "\\" THEN <<"\\", "\\">>
          ELSE <<c>>) \o Escape(Tail(s))

\* Value::to_string(): the Display of a Value is its JSON text
to_string(v) ==
    IF v.t = "String" THEN <<"\"">> \o Escape(v.s) \o <<"\"">>
    ELSE Decimal(v.n)

(***************************************************************************)
(* ApiResponseSection and the responses the model draws from.              *)
(***************************************************************************)
ApiErrors ==
    { [type |-> 1,   address |-> "/lights/1/state/on", description |-> "unauthorized user"],
      [type |-> 101, address |-> "",                   description |-> "link button not pressed"] }

SectionErr(e) == [tag |-> "Err", e |-> e, map |-> <<>>]
SectionSuccess(h) == [tag |-> "Success", e |-> 0, map |-> h]

abc123 == <<"a", "b", "c", "1", "2", "3">>

UsernameValues == { JString(abc123), JString(<<"n", "\"">>), JNumber(12) }

\* HashMap<String, Value> as a function on the keys present
HashMaps ==
    LET U == { <<>> } \cup { [k \in {"username"} |-> v] : v \in UsernameValues }
        K == { <<>>, [k \in {"clientkey"} |-> JString(<<"k">>)] }
    IN { u @@ k : u \in U, k \in K }

get(h, k) == IF k \in DOMAIN h THEN Some(h[k]) ELSE None

Sections == { SectionErr(e) : e \in ApiErrors } \cup { SectionSuccess(h) : h \in HashMaps }

Responses == UNION { [1..n -> Sections] : n \in 0..MaxSections }

(***************************************************************************)
(* The conversion of Vec<ApiError> into the crate's Error done by `?`.     *)
(***************************************************************************)
FromApiErrors(errors) == [kind |-> "ApiErrors", errors |-> errors]
FromTransport == [kind |-> "Transport", errors |-> <<>>]

(***************************************************************************)
(* Bridge::register_user, lines 76-89: the scan of the response.           *)
(***************************************************************************)
\* a scan that stops at the first Success, as Iterator::any would
RECURSIVE RegisterScan_stop(_, _, _)
RegisterScan_stop(rest, errors, success) ==
    IF rest = <<>> THEN [errors |-> errors, success |-> success]
    ELSE LET section == Head(rest) IN
         IF section.tag = "Err"
         THEN RegisterScan_stop(Tail(rest), Append(errors, section.e), success)
         ELSE [errors |-> errors, success |-> Some(section.map)]

RECURSIVE RegisterScan(_, _, _)
RegisterScan(rest, errors, success) ==
    IF rest = <<>> THEN [errors |-> errors, success |-> success]
    ELSE LET section == Head(rest) IN
         IF section.tag = "Err"
         THEN RegisterScan(Tail(rest), Append(errors, section.e), success)
         ELSE RegisterScan(Tail(rest), errors, Some(section.map))

register_user(resp) ==
    LET scan == RegisterScan(resp, <<>>, None)
        username == IF scan.success.some THEN get(scan.success.val, "username") ELSE None
    IN IF username.some THEN Ok(to_string(username.val))
       ELSE Err(FromApiErrors(scan.errors))

(***************************************************************************)
(* Bridge::light_change_result: Iterator::any stops at the first Success,  *)
(* the closure pushes every Err it meets before that.                      *)
(***************************************************************************)
\* a scan that puts each error in front of the ones collected before
RECURSIVE LightScan_prepend(_, _)
LightScan_prepend(rest, errors) ==
    IF rest = <<>> THEN [success |-> FALSE, errors |-> errors]
    ELSE LET section == Head(rest) IN
         IF section.tag = "Success" THEN [success |-> TRUE, errors |-> errors]
         ELSE LightScan_prepend(Tail(rest), <<section.e>> \o errors)

RECURSIVE LightScan(_, _)
LightScan(rest, errors) ==
    IF rest = <<>> THEN [success |-> FALSE, errors |-> errors]
    ELSE LET section == Head(rest) IN
         IF section.tag = "Success" THEN [success |-> TRUE, errors |-> errors]
         ELSE LightScan(Tail(rest), Append(errors, section.e))

\* a strict policy: any Err section fails the call
light_change_result_strict(resp) ==
    LET scan == LightScan(resp, <<>>)
    IN IF scan.success /\ \A i \in DOMAIN resp : resp[i].tag = "Success"
       THEN Ok(<<>>) ELSE Err(FromApiErrors(scan.errors))

light_change_result(resp) ==
    LET scan == LightScan(resp, <<>>)
    IN IF scan.success THEN Ok(<<>>) ELSE Err(FromApiErrors(scan.errors))

\* modify_light: send, decode, then light_change_result
modify_light(transport, resp) ==
    IF transport = "ok" THEN light_change_result(resp) ELSE Err(FromTransport)

switch_light(transport, resp) == modify_light(transport, resp)

(***************************************************************************)
(* Discovery: datagrams.  A line is <<prefix, rest>>, its text being the   *)
(* two joined, so that starts_with and strip_prefix act on the prefix.     *)
(***************************************************************************)
STATUS_OK == "HTTP/1.1 200 OK"
LOCATION == "LOCATION: "

Locations == { "http://10.0.0.1/description.xml", "http://10.0.0.2/description.xml" }
Loc1 == "http://10.0.0.1/description.xml"
Loc2 == "http://10.0.0.2/description.xml"

starts_with(line, p) == line[1] = p
strip_prefix(line, p) == IF line[1] = p THEN Some(line[2]) ELSE None

WellFormed(src, url) ==
    [src |-> src, lines |-> << <<STATUS_OK, "">>, <<LOCATION, url>> >>]

Datagrams ==
    { WellFormed("10.0.0.1", Loc1),
      WellFormed("10.0.0.9", Loc1),
      WellFormed("10.0.0.2", Loc2),
      \* another header first, two LOCATION lines
      [src |-> "10.0.0.2",
       lines |-> << <<STATUS_OK, "">>, <<"SERVER: ", "hue">>, <<LOCATION, Loc2>>, <<LOCATION, Loc1>> >>],
      \* no LOCATION header
      [src |-> "10.0.0.3", lines |-> << <<STATUS_OK, "">>, <<"SERVER: ", "hue">> >>],
      \* not a 200 answer
      [src |-> "10.0.0.3", lines |-> << <<"NOTIFY * HTTP/1.1", "">>, <<LOCATION, Loc1>> >>],
      \* an empty datagram
      [src |-> "10.0.0.4", lines |-> << >>] }

InvalidData == [kind |-> "InvalidData"]
InvalidInput == [kind |-> "InvalidInput"]
WouldBlock == [kind |-> "WouldBlock"]
Interrupted == [kind |-> "Interrupted"]

(***************************************************************************)
(* receive_answer, after recv_from has returned the datagram d.            *)
(***************************************************************************)
RECURSIVE FirstLocation(_)
FirstLocation(lines) ==
    IF lines = <<>> THEN Err(InvalidData)
    ELSE LET url == strip_prefix(Head(lines), LOCATION) IN
         IF url.some THEN Ok(url.val) ELSE FirstLocation(Tail(lines))

receive_answer(d) ==
    IF d.lines # <<>>
    THEN IF ~starts_with(Head(d.lines), STATUS_OK) THEN Err(InvalidData)
         ELSE FirstLocation(Tail(d.lines))
    ELSE Err(InvalidData)

(***************************************************************************)
(* BridgeFinder.                                                           *)
(***************************************************************************)
BridgeFinder_new(timeout) == [timeout |-> timeout, seen_urls |-> {}]

\* a deadline test that holds at one tick only
Expired_at(time_spent, timeout) == time_spent = timeout + 1

\* a deadline test that is one tick early
Expired_ge(time_spent, timeout) == time_spent >= timeout

\* a deadline test that never holds
Expired_never(time_spent, timeout) == FALSE

\* next(): `time_spent > self.timeout`
Expired(time_spent, timeout) == time_spent > timeout

\* UdpSocket::set_read_timeout(Some(dur)): a zero Duration is refused
set_read_timeout(dur) == IF dur = 0 THEN Err(InvalidInput) ELSE Ok(dur)

\* a lookup that never finds the url
IsSeen_never(f, url) == FALSE

\* next(): `self.seen_urls.contains(&url)`
IsSeen(f, url) == url \in f.seen_urls

\* an insert that is left out
InsertSeen_noop(f, url) == f

\* an insert that remembers the last url only
InsertSeen_reset(f, url) == [f EXCEPT !.seen_urls = {url}]

\* next(): `self.seen_urls.insert(url.clone())`
InsertSeen(f, url) == [f EXCEPT !.seen_urls = @ \cup {url}]

\* an Err arm that treats the error as fatal and closes the session
AfterError_closes(f) == [f EXCEPT !.timeout = 0]

\* an Err arm that forgets the locations seen
AfterError_clears(f) == [f EXCEPT !.seen_urls = {}]

\* next(): the Err arm returns Some(Err(e.into())) and leaves self as it is
AfterError(f) == f

\* next(): the Err arm: WouldBlock recurses, every other kind is yielded
Recurses(e) == e.kind = "WouldBlock"

\* Bridge::from_description_url: the fetch and the XML decoding may fail
from_description_url(url, net) ==
    IF net = "ok" THEN Ok([description |-> url])
    ELSE Err([kind |-> net, url |-> url])

NetOutcomes == { "ok", "Http", "Xml" }

(***************************************************************************)
(* What next() returned, and the history the properties read.              *)
(***************************************************************************)
NoCall == [kind |-> "NoCall"]
RetNone == [kind |-> "None"]
\* an item whose failure is swallowed, as `.ok()` would
RetSome_ok(item) ==
    IF item.tag = "Err" THEN [kind |-> "None"] ELSE [kind |-> "Some", item |-> item]

RetSome(item) == [kind |-> "Some", item |-> item]

Inc(n) == IF n < MaxCount THEN n + 1 ELSE n

HistInit(timeout) ==
    [ T         |-> timeout,                      \* the timeout given to new()
      attempts  |-> [l \in Locations |-> 0],      \* from_description_url calls
      firstSrc  |-> [l \in Locations |-> "-"],    \* who advertised l first
      dupOther  |-> FALSE,    \* a duplicate from another source was skipped
      malformed |-> FALSE,    \* a malformed datagram was received
      packets   |-> FALSE,    \* recv_from has returned a datagram
      osError   |-> FALSE,    \* recv_from failed with a kind other than WouldBlock
      calls     |-> 0,        \* completed calls of next()
      nones     |-> 0 ]       \* calls that returned None

Returned(h, r) ==
    [h EXCEPT !.calls = Inc(@), !.nones = IF r.kind = "None" THEN Inc(@) ELSE @]

(***************************************************************************)
(* The response protocol as a state machine: each action is one call of a  *)
(* Bridge method, the decoded response and the transport outcome being its *)
(* inputs.                                                                 *)
(***************************************************************************)
NoResult == [tag |-> "None"]
Transports == { "ok", "fail" }

\* no call yet, and no response decoded
InitApi ==
    /\ response = <<>>
    /\ apiCall = "none"
    /\ apiResult = NoResult

RegisterUser ==
    \E transport \in Transports :
        /\ apiCall = "none"
        /\ UNCHANGED response
        /\ apiCall' = "register_user"
        /\ apiResult' = IF transport = "ok" THEN register_user(response)
                        ELSE Err(FromTransport)
        /\ UNCHANGED <<finderVars, pairVars>>

ModifyLight ==
    \E transport \in Transports :
        /\ apiCall = "none"
        /\ UNCHANGED response
        /\ apiCall' = "modify_light"
        /\ apiResult' = modify_light(transport, response)
        /\ UNCHANGED <<finderVars, pairVars>>

SwitchLight ==
    \E transport \in Transports :
        /\ apiCall = "none"
        /\ UNCHANGED response
        /\ apiCall' = "switch_light"
        /\ apiResult' = switch_light(transport, response)
        /\ UNCHANGED <<finderVars, pairVars>>

(***************************************************************************)
(* One discovery session.                                                  *)
(***************************************************************************)
InitFinder ==
    \E timeout \in 0..MaxTimeout :
        /\ finder = BridgeFinder_new(timeout)
        /\ now = 0
        /\ pc = "idle"
        /\ sockbuf = <<>>
        /\ readTimeout = 0
        /\ recvSince = 0
        /\ ret = NoCall
        /\ hist = HistInit(timeout)

\* a call of next(), or its recursion, is about to read the clock
AtEntry == pc \in { "idle", "loop" }

Return(r, h) ==
    /\ pc' = "idle"
    /\ ret' = r
    /\ hist' = Returned(h, r)

\* lines 69-72: the deadline has passed
NextExpired ==
    /\ AtEntry
    /\ Expired(now, finder.timeout)
    /\ Return(RetNone, hist)
    /\ UNCHANGED <<finder, now, sockbuf, readTimeout, recvSince, apiVars, pairVars>>

\* lines 73-78: set_read_timeout refuses the remaining time
NextSetTimeoutFails ==
    /\ AtEntry
    /\ ~Expired(now, finder.timeout)
    /\ LET r == set_read_timeout(finder.timeout - now) IN
        /\ r.tag = "Err"
        /\ Return(RetSome(Err(r.err)), hist)
    /\ UNCHANGED <<finder, now, sockbuf, readTimeout, recvSince, apiVars, pairVars>>

\* lines 73-79: the read timeout is set and recv_from blocks
NextBlock ==
    /\ AtEntry
    /\ ~Expired(now, finder.timeout)
    /\ LET r == set_read_timeout(finder.timeout - now) IN
        /\ r.tag = "Ok"
        /\ readTimeout' = r.val
    /\ recvSince' = now
    /\ pc' = "recv"
    /\ UNCHANGED <<finder, now, sockbuf, ret, hist, apiVars, pairVars>>

\* lines 79-87, Ok arm, a location not seen before
RecvNovel ==
    /\ pc = "recv"
    /\ sockbuf # <<>>
    /\ LET d == Head(sockbuf)
           answer == receive_answer(d)
       IN /\ answer.tag = "Ok"
          /\ ~IsSeen(finder, answer.val)
          /\ finder' = InsertSeen(finder, answer.val)
          /\ \E net \in NetOutcomes :
                Return(RetSome(from_description_url(answer.val, net)),
                       [hist EXCEPT !.packets = TRUE,
                                    !.attempts[answer.val] = Inc(@),
                                    !.firstSrc[answer.val] = IF @ = "-" THEN d.src ELSE @])
    /\ sockbuf' = Tail(sockbuf)
    /\ UNCHANGED <<now, readTimeout, recvSince, apiVars, pairVars>>

\* lines 79-83, Ok arm, a location already seen: self.next()
RecvDuplicate ==
    /\ pc = "recv"
    /\ sockbuf # <<>>
    /\ LET d == Head(sockbuf)
           answer == receive_answer(d)
       IN /\ answer.tag = "Ok"
          /\ IsSeen(finder, answer.val)
          /\ hist' = [hist EXCEPT !.packets = TRUE,
                                  !.dupOther = @ \/ d.src # hist.firstSrc[answer.val]]
    /\ pc' = "loop"
    /\ sockbuf' = Tail(sockbuf)
    /\ UNCHANGED <<finder, now, readTimeout, recvSince, ret, apiVars, pairVars>>

\* lines 88-94, Err arm
OnRecvError(e, h) ==
    IF Recurses(e)
    THEN /\ pc' = "loop"
         /\ hist' = h
         /\ UNCHANGED <<finder, ret>>
    ELSE /\ finder' = AfterError(finder)
         /\ Return(RetSome(Err(e)), h)

\* receive_answer rejects the datagram
RecvMalformed ==
    /\ pc = "recv"
    /\ sockbuf # <<>>
    /\ LET answer == receive_answer(Head(sockbuf))
       IN /\ answer.tag = "Err"
          /\ OnRecvError(answer.err, [hist EXCEPT !.packets = TRUE, !.malformed = TRUE])
    /\ sockbuf' = Tail(sockbuf)
    /\ UNCHANGED <<now, readTimeout, recvSince, apiVars, pairVars>>

\* recv_from: the read timeout ran out with nothing queued
RecvTimedOut ==
    /\ pc = "recv"
    /\ sockbuf = <<>>
    /\ now >= recvSince + readTimeout
    /\ OnRecvError(WouldBlock, hist)
    /\ UNCHANGED <<now, sockbuf, readTimeout, recvSince, apiVars, pairVars>>

\* recv_from: any other failure of the system call
RecvFailed ==
    /\ pc = "recv"
    /\ sockbuf = <<>>
    /\ OnRecvError(Interrupted, [hist EXCEPT !.osError = TRUE])
    /\ UNCHANGED <<now, sockbuf, readTimeout, recvSince, apiVars, pairVars>>

\* a datagram reaches the socket
Arrive ==
    /\ Len(sockbuf) < MaxBuf
    /\ \E d \in Datagrams : sockbuf' = Append(sockbuf, d)
    /\ UNCHANGED <<finder, now, pc, readTimeout, recvSince, ret, hist, apiVars, pairVars>>

\* the clock advances
Tick ==
    /\ now < hist.T + Slack
    /\ now' = now + 1
    /\ UNCHANGED <<finder, pc, sockbuf, readTimeout, recvSince, ret, hist, apiVars, pairVars>>

(***************************************************************************)
(* Two sessions side by side: each BridgeFinder::new binds a socket of its *)
(* own, and the calls of next() on the two instances interleave.           *)
(***************************************************************************)
SessionIds == { 1, 2 }

NoSession ==
    [ live |-> FALSE, finder |-> BridgeFinder_new(0), start |-> 0, pc |-> "idle",
      sockbuf |-> <<>>, wake |-> 0, ret |-> NoCall ]

InitNoPair ==
    /\ sessions = [i \in SessionIds |-> NoSession]
    /\ clock = 0

\* a process-wide set of seen urls, as a `static` would be
Me_shared(ss, i) ==
    [ss[i].finder EXCEPT !.seen_urls = UNION { ss[j].finder.seen_urls : j \in SessionIds }]

\* `self` in a call of next() on instance i
Me(ss, i) == ss[i].finder

\* start.elapsed() of instance i
Elapsed(i) == clock - sessions[i].start

\* the instance BridgeFinder::new(timeout) gives at tick t
NewSession(timeout, t) ==
    [ live |-> TRUE, finder |-> BridgeFinder_new(timeout), start |-> t,
      pc |-> "idle", sockbuf |-> <<>>, wake |-> 0, ret |-> NoCall ]

\* the datagrams that reach the sockets of the two sessions
PairDatagrams ==
    { WellFormed("10.0.0.1", Loc1),
      [src |-> "10.0.0.3", lines |-> << <<STATUS_OK, "">>, <<"SERVER: ", "hue">> >>] }

\* BridgeFinder::new(timeout)
PairNew(i) ==
    /\ ~sessions[i].live
    /\ \E timeout \in 1..MaxTimeout :
          sessions' = [sessions EXCEPT ![i] = NewSession(timeout, clock)]
    /\ UNCHANGED <<clock, finderVars, apiVars>>

PairAtEntry(i) == sessions[i].live /\ sessions[i].pc \in { "idle", "loop" }

PairExpired(i) ==
    /\ PairAtEntry(i)
    /\ Expired(Elapsed(i), Me(sessions, i).timeout)
    /\ sessions' = [sessions EXCEPT ![i].pc = "idle", ![i].ret = RetNone]
    /\ UNCHANGED <<clock, finderVars, apiVars>>

PairSetTimeoutFails(i) ==
    /\ PairAtEntry(i)
    /\ ~Expired(Elapsed(i), Me(sessions, i).timeout)
    /\ LET r == set_read_timeout(Me(sessions, i).timeout - Elapsed(i)) IN
        /\ r.tag = "Err"
        /\ sessions' = [sessions EXCEPT ![i].pc = "idle", ![i].ret = RetSome(Err(r.err))]
    /\ UNCHANGED <<clock, finderVars, apiVars>>

PairBlock(i) ==
    /\ PairAtEntry(i)
    /\ ~Expired(Elapsed(i), Me(sessions, i).timeout)
    /\ LET r == set_read_timeout(Me(sessions, i).timeout - Elapsed(i)) IN
        /\ r.tag = "Ok"
        /\ sessions' = [sessions EXCEPT ![i].pc = "recv", ![i].wake = clock + r.val]
    /\ UNCHANGED <<clock, finderVars, apiVars>>

PairRecvNovel(i) ==
    /\ sessions[i].pc = "recv"
    /\ sessions[i].sockbuf # <<>>
    /\ LET answer == receive_answer(Head(sessions[i].sockbuf)) IN
        /\ answer.tag = "Ok"
        /\ ~IsSeen(Me(sessions, i), answer.val)
        /\ \E net \in NetOutcomes :
              sessions' = [sessions EXCEPT
                  ![i].finder = InsertSeen(Me(sessions, i), answer.val),
                  ![i].ret = RetSome(from_description_url(answer.val, net)),
                  ![i].pc = "idle",
                  ![i].sockbuf = Tail(@)]
    /\ UNCHANGED <<clock, finderVars, apiVars>>

PairRecvDuplicate(i) ==
    /\ sessions[i].pc = "recv"
    /\ sessions[i].sockbuf # <<>>
    /\ LET answer == receive_answer(Head(sessions[i].sockbuf)) IN
        /\ answer.tag = "Ok"
        /\ IsSeen(Me(sessions, i), answer.val)
    /\ sessions' = [sessions EXCEPT ![i].pc = "loop", ![i].sockbuf = Tail(@)]
    /\ UNCHANGED <<clock, finderVars, apiVars>>

PairRecvMalformed(i) ==
    /\ sessions[i].pc = "recv"
    /\ sessions[i].sockbuf # <<>>
    /\ LET answer == receive_answer(Head(sessions[i].sockbuf)) IN
        /\ answer.tag = "Err"
        /\ ~Recurses(answer.err)
        /\ sessions' = [sessions EXCEPT
              ![i].finder = AfterError(Me(sessions, i)),
              ![i].ret = RetSome(Err(answer.err)),
              ![i].pc = "idle",
              ![i].sockbuf = Tail(@)]
    /\ UNCHANGED <<clock, finderVars, apiVars>>

PairRecvTimedOut(i) ==
    /\ sessions[i].pc = "recv"
    /\ sessions[i].sockbuf = <<>>
    /\ clock >= sessions[i].wake
    /\ Recurses(WouldBlock)
    /\ sessions' = [sessions EXCEPT ![i].pc = "loop"]
    /\ UNCHANGED <<clock, finderVars, apiVars>>

\* a datagram reaches the socket of instance i
PairArrive(i) ==
    /\ sessions[i].live
    /\ Len(sessions[i].sockbuf) < MaxBuf
    /\ \E d \in PairDatagrams :
          sessions' = [sessions EXCEPT ![i].sockbuf = Append(@, d)]
    /\ UNCHANGED <<clock, finderVars, apiVars>>

PairTick ==
    /\ clock < MaxTimeout
    /\ clock' = clock + 1
    /\ UNCHANGED <<sessions, finderVars, apiVars>>

NextPair ==
    \/ \E i \in SessionIds : PairNew(i)
    \/ \E i \in SessionIds : PairExpired(i)
    \/ \E i \in SessionIds : PairSetTimeoutFails(i)
    \/ \E i \in SessionIds : PairBlock(i)
    \/ \E i \in SessionIds : PairRecvNovel(i)
    \/ \E i \in SessionIds : PairRecvDuplicate(i)
    \/ \E i \in SessionIds : PairRecvMalformed(i)
    \/ \E i \in SessionIds : PairRecvTimedOut(i)
    \/ \E i \in SessionIds : PairArrive(i)
    \/ PairTick

\* the first instance has been constructed, the second has not yet
InitPair ==
    /\ \E timeout \in 1..MaxTimeout :
          sessions = [i \in SessionIds |->
                        IF i = 1 THEN NewSession(timeout, 0) ELSE NoSession]
    /\ clock = 0
    /\ InitApi
    /\ finder = BridgeFinder_new(0)
    /\ now = 0
    /\ pc = "idle"
    /\ sockbuf = <<>>
    /\ readTimeout = 0
    /\ recvSince = 0
    /\ ret = NoCall
    /\ hist = HistInit(0)

SpecPair == InitPair /\ [][NextPair]_vars

(***************************************************************************)
(* Specifications.                                                         *)
(***************************************************************************)
Init == InitFinder /\ InitApi /\ InitNoPair

Next ==
    \/ NextExpired
    \/ NextSetTimeoutFails
    \/ NextBlock
    \/ RecvNovel
    \/ RecvDuplicate
    \/ RecvMalformed
    \/ RecvTimedOut
    \/ RecvFailed
    \/ Arrive
    \/ Tick

Spec == Init /\ [][Next]_vars

(***************************************************************************)
(* The session under the scheduling the code relies on: the clock          *)
(* advances, the consumer thread runs and keeps calling next(), and        *)
(* recv_from returns once a datagram is queued or its timeout has run out. *)
(***************************************************************************)
EntrySteps == NextExpired \/ NextSetTimeoutFails \/ NextBlock
RecvSteps == RecvNovel \/ RecvDuplicate \/ RecvMalformed \/ RecvTimedOut

SpecLive ==
    /\ Spec
    /\ WF_vars(Tick)
    /\ WF_vars(EntrySteps)
    /\ WF_vars(RecvSteps)

\* the bridge has answered a request with any bounded list of sections
InitApiOnly ==
    /\ response \in Responses
    /\ apiCall = "none"
    /\ apiResult = NoResult
    /\ finder = BridgeFinder_new(0)
    /\ now = 0
    /\ pc = "idle"
    /\ sockbuf = <<>>
    /\ readTimeout = 0
    /\ recvSince = 0
    /\ ret = NoCall
    /\ hist = HistInit(0)
    /\ InitNoPair

NextApi == RegisterUser \/ ModifyLight \/ SwitchLight

SpecApi == InitApiOnly /\ [][NextApi]_vars

(***************************************************************************)
(* Properties of the response protocol, checked under SpecApi.             *)
(***************************************************************************)
LightCall == apiCall \in { "modify_light", "switch_light" }
RegisterCall == apiCall = "register_user"
\* the request was answered and the body decoded
Decoded == apiResult # Err(FromTransport)

HasSuccess(resp) == \E i \in DOMAIN resp : resp[i].tag = "Success"
OnlyErrors(resp) == \A i \in DOMAIN resp : resp[i].tag = "Err"
IsErrSection(s) == s.tag = "Err"
ErrorsOf(resp) ==
    LET es == SelectSeq(resp, IsErrSection) IN [i \in 1..Len(es) |-> es[i].e]
\* the positions of the Success sections whose payload has a "username"
Keyed(resp) ==
    { i \in DOMAIN resp : resp[i].tag = "Success" /\ "username" \in DOMAIN resp[i].map }
FirstOf(S) == CHOOSE i \in S : \A j \in S : i <= j

C2_AllErrorsReported ==
    (LightCall /\ Decoded /\ Len(response) >= 1 /\ OnlyErrors(response))
        => apiResult = Err(FromApiErrors([i \in 1..Len(response) |-> response[i].e]))

C2_Witness ==
    /\ apiCall = "switch_light"
    /\ Len(response) = 2
    /\ OnlyErrors(response)
    /\ response[1].e.description = "unauthorized user"
    /\ response[2].e.description = "link button not pressed"
    /\ apiResult.tag = "Err"
    /\ Len(apiResult.err.errors) = 2

\* C3: if any Success section maps "username" to the string u, registration
\* returns Ok(u), the string u itself, whatever precedes or follows it.
C3_UsernameReturnedAsIs ==
    (RegisterCall /\ Decoded) =>
        \A i \in Keyed(response) :
            response[i].map["username"].t = "String"
                => apiResult = Ok(response[i].map["username"].s)

\* C4: with several Success sections, registration returns the username of
\* the first Success section that has the key, and drops the errors.  The
\* username is compared in the rendering register_user gives it (to_string).
C4_FirstKeyedSuccessWins ==
    (RegisterCall /\ Decoded /\ Keyed(response) # {}) =>
        apiResult = Ok(to_string(response[FirstOf(Keyed(response))].map["username"]))

\* C5: if no Success section has a "username", registration fails with
\* exactly the Error sections of the response, in order; with no Error
\* section the failure carries an empty list.
C5_NoUsernameFailsWithAllErrors ==
    (RegisterCall /\ Decoded /\ Keyed(response) = {})
        => apiResult = Err(FromApiErrors(ErrorsOf(response)))

C5_Witness ==
    /\ RegisterCall
    /\ Len(response) = 3
    /\ response[1].tag = "Err" /\ response[2].tag = "Success" /\ response[3].tag = "Err"
    /\ Keyed(response) = {}
    /\ apiResult = Err(FromApiErrors(<<response[1].e, response[3].e>>))

(***************************************************************************)
(* Properties of one discovery session, checked under Spec.                *)
(***************************************************************************)
\* the step is one taken by next() at its entry: it reads the clock
EntryStep == AtEntry /\ now' = now /\ sockbuf' = sockbuf
\* the datagram at the head of the queue advertises a location not yet seen
NovelAtHead ==
    /\ sockbuf # <<>>
    /\ receive_answer(Head(sockbuf)).tag = "Ok"
    /\ receive_answer(Head(sockbuf)).val \notin finder.seen_urls
ResolutionsOf(url) == { from_description_url(url, net) : net \in NetOutcomes }

\* C6: within a session each advertised location is resolved at most once:
\* a location has one resolution attempt once it is in seen_urls and none
\* before, however many datagrams, from whatever source, advertise it.
C6_OneResolutionPerLocation ==
    \A l \in Locations :
        hist.attempts[l] = IF l \in finder.seen_urls THEN 1 ELSE 0

C6_Witness ==
    /\ hist.dupOther
    /\ hist.firstSrc[Loc1] = "10.0.0.1"
    /\ hist.attempts[Loc1] = 1
    /\ pc = "loop"

\* C7: with a timeout T > 0, when no datagram ever arrives (and recv_from
\* fails only by timing out), the first call of next(), having blocked in
\* recv_from, returns None, not an error item.
C7_SilentSessionFirstCallReturnsNone ==
    (hist.T > 0 /\ hist.calls = 1 /\ readTimeout > 0 /\ ~hist.packets /\ ~hist.osError)
        => ret = RetNone

\* C8: whenever next() reads the clock and the remaining time, timeout minus
\* elapsed, is <= 0 (0 included), it returns None: no receive, no error
\* item.  Stated for the sessions with a positive timeout.
C8_NoRemainingTimeReturnsNone ==
    [][ (EntryStep /\ finder.timeout > 0 /\ finder.timeout - now <= 0)
            => (pc' = "idle" /\ ret' = RetNone) ]_vars

\* C9: once next() has returned None, no later step yields an item or
\* starts a receive: every later call returns None, whatever has arrived.
C9_ExhaustedIsTerminal ==
    [][ hist.nones > 0 => (pc' = "idle" /\ ret' = RetNone) ]_vars

C9_Witness ==
    /\ hist.nones = 2
    /\ NovelAtHead
    /\ ret = RetNone

\* C10: a malformed datagram does not end the session: afterwards, before
\* the deadline, a call of next() still sets the read timeout and receives,
\* and a well-formed datagram with a novel location that it receives has
\* its resolution result yielded.
C10_StillOpen ==
    (hist.malformed /\ pc = "idle" /\ now < hist.T)
        => /\ ~Expired(now, finder.timeout)
           /\ set_read_timeout(finder.timeout - now).tag = "Ok"

C10_MalformedDoesNotEndSession ==
    [][ /\ C10_StillOpen'
        /\ (hist.malformed /\ pc = "recv" /\ NovelAtHead /\ sockbuf' = Tail(sockbuf))
              => /\ pc' = "idle"
                 /\ ret'.kind = "Some"
                 /\ ret'.item \in ResolutionsOf(receive_answer(Head(sockbuf)).val) ]_vars

C10_Witness ==
    /\ hist.malformed
    /\ ret = RetSome(Ok([description |-> Loc2]))
    /\ hist.calls = 2

\* the step receives the datagram at the head of the queue
PopStep == pc = "recv" /\ sockbuf # <<>> /\ sockbuf' = Tail(sockbuf)
\* a call of next() made now would set the read timeout and receive
Receiving ==
    /\ ~Expired(now, finder.timeout)
    /\ set_read_timeout(finder.timeout - now).tag = "Ok"
\* the results Bridge::from_description_url can give for url
ResolutionFailures(url) == { Err([kind |-> k, url |-> url]) : k \in { "Http", "Xml" } }
IsResolutionFailure(r) ==
    r.kind = "Some" /\ \E l \in Locations : r.item \in ResolutionFailures(l)

\* C11: a malformed datagram is skipped silently: receiving it yields no
\* item, neither a Bridge nor an error; next() loops on.
C11_MalformedYieldsNoItem ==
    [][ (PopStep /\ receive_answer(Head(sockbuf)).tag = "Err")
            => (pc' = "loop" /\ ret' = ret) ]_vars

\* C12: a well-formed datagram with a novel location makes next() yield the
\* Result of from_description_url for that location, a failure as an Err
\* item; after a failure a call before the deadline still receives.
C12_Resolved(r, url) ==
    /\ r.kind = "Some"
    /\ r.item \in ResolutionFailures(url) \cup { Ok([description |-> url]) }

C12_ResolutionResultYielded ==
    [][ /\ (PopStep /\ NovelAtHead)
            => /\ pc' = "idle"
               /\ C12_Resolved(ret', receive_answer(Head(sockbuf)).val)
               /\ hist'.calls = Inc(hist.calls)
        /\ (IsResolutionFailure(ret') /\ pc' = "idle" /\ now' < hist'.T)
            => Receiving' ]_vars

C12_Witness ==
    /\ ret = RetSome(Err([kind |-> "Xml", url |-> Loc1]))
    /\ pc = "recv"
    /\ NovelAtHead

\* C13: seen_urls only grows; a location is in seen_urls from the step that
\* attempts its resolution on, also when the resolution fails, and it is
\* never resolved a second time in the session.
C13_SeenUrlsMonotone ==
    [][ /\ finder.seen_urls \subseteq finder'.seen_urls
        /\ \A l \in Locations :
              /\ hist'.attempts[l] > 0 => l \in finder'.seen_urls
              /\ hist.attempts[l] > 0 => hist'.attempts[l] = hist.attempts[l] ]_vars

\* a duplicate of a location whose resolution failed has just been skipped
C13_Witness ==
    /\ ret = RetSome(Err([kind |-> "Http", url |-> Loc1]))
    /\ hist.calls = 1
    /\ hist.dupOther
    /\ pc = "loop"
    /\ finder.seen_urls = { Loc1 }
    /\ hist.attempts[Loc1] = 1

(***************************************************************************)
(* C14, checked under SpecApi.                                             *)
(***************************************************************************)
Permuted(resp, p) == [i \in DOMAIN resp |-> resp[p[i]]]

\* C14: the order of the sections does not matter: for every permutation
\* of the response, registration gives the same outcome class and, when it
\* is Ok and one section only has a "username", the same username, and a
\* light change gives the same outcome class.
C14_OrderIrrelevant ==
    (apiCall # "none" /\ Decoded) =>
        \A p \in Permutations(DOMAIN response) :
            /\ RegisterCall =>
                  LET other == register_user(Permuted(response, p)) IN
                  /\ other.tag = apiResult.tag
                  /\ (other.tag = "Ok" /\ Cardinality(Keyed(response)) = 1)
                        => other = apiResult
            /\ LightCall =>
                  light_change_result(Permuted(response, p)).tag = apiResult.tag

(***************************************************************************)
(* C17-C19, checked under Spec.                                            *)
(***************************************************************************)
\* C17: next() returns None only when the time elapsed since construction
\* exceeds the timeout: no datagram, resolution failure or receive error
\* makes it return None before.
C17_NoneOnlyAfterDeadline ==
    /\ hist.nones > 0 => now > hist.T
    /\ ret = RetNone => hist.nones > 0

C17_Witness ==
    /\ ret = RetNone
    /\ hist.nones = 1
    /\ hist.malformed
    /\ hist.dupOther
    /\ now = hist.T + 1

\* the step is one in which set_read_timeout fails, or receive_answer fails
\* with a kind other than WouldBlock
C18_ErrorStep ==
    \/ /\ EntryStep
       /\ ~Expired(now, finder.timeout)
       /\ set_read_timeout(finder.timeout - now).tag = "Err"
    \/ PopStep /\ receive_answer(Head(sockbuf)).tag = "Err"
    \/ pc = "recv" /\ ~hist.osError /\ hist'.osError

\* C18: a failure of set_read_timeout, or a receive error other than
\* WouldBlock, makes the call return one Err item; seen_urls is unchanged
\* and a later call before the deadline still receives.
C18_ErrorItemKeepsSession ==
    [][ C18_ErrorStep =>
          /\ pc' = "idle"
          /\ ret'.kind = "Some"
          /\ ret'.item \in { Err(InvalidInput), Err(InvalidData), Err(Interrupted) }
          /\ hist'.calls = Inc(hist.calls)
          /\ finder'.seen_urls = finder.seen_urls
          /\ now' < hist'.T => Receiving' ]_vars

\* after a resolution, a receive error was yielded, and the session receives
C18_Witness ==
    /\ ret = RetSome(Err(InvalidData))
    /\ finder.seen_urls = { Loc1 }
    /\ pc = "recv"
    /\ NovelAtHead

\* C19: seen_urls changes only in the step that yields a resolution item,
\* by adding the location of that item, so that the size of seen_urls is
\* the number of resolution items yielded so far.
C19_SeenUrlsCountsResolutions ==
    [][ /\ finder'.seen_urls # finder.seen_urls =>
              /\ PopStep /\ NovelAtHead
              /\ finder'.seen_urls =
                    finder.seen_urls \cup { receive_answer(Head(sockbuf)).val }
              /\ C12_Resolved(ret', receive_answer(Head(sockbuf)).val)
        /\ Cardinality(finder'.seen_urls) =
              hist'.attempts[Loc1] + hist'.attempts[Loc2] ]_vars

C19_Witness ==
    /\ Cardinality(finder.seen_urls) = 2
    /\ hist.attempts[Loc1] = 1 /\ hist.attempts[Loc2] = 1
    /\ hist.malformed
    /\ hist.dupOther
    /\ hist.nones > 0

PairPopStep(i) ==
    /\ sessions[i].pc = "recv"
    /\ sessions[i].sockbuf # <<>>
    /\ sessions'[i].sockbuf = Tail(sessions[i].sockbuf)

\* C16: sessions are isolated.  A new instance starts with an empty
\* seen_urls, an empty socket and its own start; a step of one instance
\* leaves the other as it is; a location is skipped by an instance only if
\* that instance has seen it, whatever the other has seen; and an instance
\* whose own deadline has not come still receives, whatever the other did.
C16_SessionsIsolated ==
    [][ \A i \in SessionIds :
          /\ (~sessions[i].live /\ sessions'[i].live)
                => /\ sessions'[i].finder.seen_urls = {}
                   /\ sessions'[i].sockbuf = <<>>
                   /\ sessions'[i].start = clock
                   /\ sessions'[i].ret = NoCall
          /\ sessions'[i] # sessions[i]
                => \A j \in SessionIds \ {i} : sessions'[j] = sessions[j]
          /\ (/\ PairPopStep(i)
              /\ receive_answer(Head(sessions[i].sockbuf)).tag = "Ok"
              /\ receive_answer(Head(sessions[i].sockbuf)).val
                     \notin sessions[i].finder.seen_urls)
                => /\ sessions'[i].pc = "idle"
                   /\ C12_Resolved(sessions'[i].ret,
                                   receive_answer(Head(sessions[i].sockbuf)).val)
                   /\ sessions'[i].finder.seen_urls =
                         sessions[i].finder.seen_urls
                            \cup { receive_answer(Head(sessions[i].sockbuf)).val }
          /\ (/\ PairAtEntry(i)
              /\ sessions'[i] # sessions[i]
              /\ sessions'[i].sockbuf = sessions[i].sockbuf
              /\ clock - sessions[i].start < sessions[i].finder.timeout)
                => sessions'[i].pc = "recv" ]_vars

\* the first session has resolved Loc1 and is exhausted; the second has
\* resolved Loc1 too and is receiving again
C16_Witness ==
    /\ sessions[1].ret = RetNone
    /\ Loc1 \in sessions[1].finder.seen_urls
    /\ sessions[2].ret = RetSome(Ok([description |-> Loc1]))
    /\ sessions[2].pc = "recv"
    /\ sessions[2].start > 0

====
